---- MODULE Spec2Model ----
(***************************************************************************)
(* Country threat assessment tool (src/main.py): the scoring model of      *)
(* CountryData (SpecScore), the SQLite repository DatabaseHandler call by  *)
(* call (Spec) and save_country statement by statement for two callers     *)
(* (SpecTxn), the form handler CountryRiskApp.add_country (SpecApp), and   *)
(* the handlers of the window with its Combobox and Listbox (SpecGui).     *)
(*                                                                         *)
(* Python floats are IEEE-754 binary64.  Every float the scoring code      *)
(* produces is a multiple of 2^-55 below 64, so a float x is carried as    *)
(* the natural number x * 2^55, written little-endian in limbs of 15 bits  *)
(* (TLC integers have 32 bits), with a sign where one can arise.  Each     *)
(* arithmetic step computes the exact result and rounds it to 53           *)
(* significant bits, ties to even, as the hardware does.                   *)
(***************************************************************************)
EXTENDS Integers, Sequences, FiniteSets, TLC

\* ------------------------------------------------------------------------
\* Naturals of arbitrary size: sequences of limbs, least significant first,
\* no most-significant zero limb (zero is <<>>).
\* ------------------------------------------------------------------------
LimbBits == 15
Base == 32768

RECURSIVE Pow2(_)
Pow2(n) == IF n = 0 THEN 1 ELSE 2 * Pow2(n - 1)

Limb(a, i) == IF i <= Len(a) THEN a[i] ELSE 0

RECURSIVE BnTrim(_)
BnTrim(a) ==
    IF a = <<>> THEN <<>>
    ELSE IF a[Len(a)] = 0 THEN BnTrim(SubSeq(a, 1, Len(a) - 1))
    ELSE a

\* carry propagation over limb values that may exceed Base
RECURSIVE BnCarry(_, _)
BnCarry(s, c) ==
    IF s = <<>>
    THEN IF c = 0 THEN <<>> ELSE <<c % Base>> \o BnCarry(<<>>, c \div Base)
    ELSE LET v == Head(s) + c
         IN  <<v % Base>> \o BnCarry(Tail(s), v \div Base)

BnFromNat(n) == BnCarry(<<>>, n)

BnAdd(a, b) ==
    LET n == IF Len(a) >= Len(b) THEN Len(a) ELSE Len(b)
    IN  BnTrim(BnCarry([i \in 1..n |-> Limb(a, i) + Limb(b, i)], 0))

\* a - b for a >= b
RECURSIVE BnBorrow(_, _, _)
BnBorrow(a, b, br) ==
    IF a = <<>> THEN <<>>
    ELSE LET v == Head(a) - (IF b = <<>> THEN 0 ELSE Head(b)) - br
         IN  IF v < 0
             THEN <<v + Base>> \o BnBorrow(Tail(a), IF b = <<>> THEN <<>> ELSE Tail(b), 1)
             ELSE <<v>> \o BnBorrow(Tail(a), IF b = <<>> THEN <<>> ELSE Tail(b), 0)

BnSub(a, b) == BnTrim(BnBorrow(a, b, 0))

\* -1, 0, 1 as a < b, a = b, a > b
RECURSIVE BnCmpFrom(_, _, _)
BnCmpFrom(a, b, i) ==
    IF i = 0 THEN 0
    ELSE IF a[i] < b[i] THEN -1
    ELSE IF a[i] > b[i] THEN 1
    ELSE BnCmpFrom(a, b, i - 1)

BnCmp(a, b) ==
    IF Len(a) < Len(b) THEN -1
    ELSE IF Len(a) > Len(b) THEN 1
    ELSE BnCmpFrom(a, b, Len(a))

\* a * k for 0 <= k < Base
BnMulSmall(a, k) == BnTrim(BnCarry([i \in 1..Len(a) |-> a[i] * k], 0))

BnShiftLimbs(a, n) == IF a = <<>> THEN <<>> ELSE [i \in 1..n |-> 0] \o a

RECURSIVE BnMulFrom(_, _, _)
BnMulFrom(a, b, i) ==
    IF i > Len(b) THEN <<>>
    ELSE BnAdd(BnShiftLimbs(BnMulSmall(a, b[i]), i - 1), BnMulFrom(a, b, i + 1))

BnMul(a, b) == BnMulFrom(a, b, 1)

\* a * 2^n
BnShl(a, n) == BnShiftLimbs(BnMulSmall(a, Pow2(n % LimbBits)), n \div LimbBits)

\* <<quotient, remainder>> of a by k, 0 < k < Base: long division from the top limb
AppendDigit(rest, d) == <<rest[1] \o <<d>>, rest[2]>>

RECURSIVE BnDivFrom(_, _, _, _)
BnDivFrom(a, k, i, r) ==
    IF i = 0 THEN <<<<>>, r>>
    ELSE AppendDigit(BnDivFrom(a, k, i - 1, (r * Base + a[i]) % k),
                     (r * Base + a[i]) \div k)

TrimQuotient(qr) == <<BnTrim(qr[1]), qr[2]>>

BnDivSmall(a, k) == TrimQuotient(BnDivFrom(a, k, Len(a), 0))

RECURSIVE BitLenNat(_)
BitLenNat(n) == IF n = 0 THEN 0 ELSE 1 + BitLenNat(n \div 2)

BnBitLen(a) == IF a = <<>> THEN 0 ELSE LimbBits * (Len(a) - 1) + BitLenNat(a[Len(a)])

BnIsOdd(a) == a # <<>> /\ a[1] % 2 = 1

\* <<floor(a / 2^n), TRUE iff a bit was shifted out>>
ShrResult(qr, low) == <<qr[1], qr[2] # 0 \/ \E i \in 1..Len(low) : low[i] # 0>>

ShrLimbs(a, k, bits) ==
    ShrResult(BnDivSmall(IF k >= Len(a) THEN <<>> ELSE SubSeq(a, k + 1, Len(a)),
                         Pow2(bits)),
              SubSeq(a, 1, IF k <= Len(a) THEN k ELSE Len(a)))

BnShr(a, n) == ShrLimbs(a, n \div LimbBits, n % LimbBits)

\* ------------------------------------------------------------------------
\* binary64
\* ------------------------------------------------------------------------
MantBits == 53
FracBits == 55

\* The exact value (e + s) * 2^-scale, 0 <= s < 1 with s > 0 iff sticky, rounded to
\* MantBits significant bits, ties to even; the result in units of 2^-FracBits.
\* q: the kept bits; guard: the first bit dropped; rest: a later bit dropped was set
RoundKept(q, guard, rest, shift) ==
    BnShl(IF guard /\ (rest \/ BnIsOdd(q)) THEN BnAdd(q, <<1>>) ELSE q, shift)

\* g: the kept bits and the guard bit, with the flag of the bits dropped below them
RoundGuard(g, sticky, shift) ==
    RoundKept(BnShr(g[1], 1)[1], BnIsOdd(g[1]), g[2] \/ sticky, shift)

RoundBits(e, scale, sticky, L) ==
    IF e = <<>> THEN <<>>
    ELSE IF L <= MantBits
    THEN IF scale <= FracBits
         THEN BnShl(e, FracBits - scale)
         ELSE BnShr(e, scale - FracBits)[1]
    ELSE RoundGuard(BnShr(e, L - MantBits - 1), sticky, L - MantBits + FracBits - scale)

FRound(e, scale, sticky) == RoundBits(e, scale, sticky, BnBitLen(e))

DivScale == 75

\* p / q correctly rounded: the value of a decimal literal p/q and of int / int
RoundQuotient(qr) == FRound(qr[1], DivScale, qr[2] # 0)

FromRatio(p, q) == RoundQuotient(BnDivSmall(BnShl(BnFromNat(p), DivScale), q))

\* x * y for floats x, y > 0
FMul(x, y) == FRound(BnMul(x, y), 2 * FracBits, FALSE)

\* signed floats: [neg |-> BOOLEAN, mag |-> natural]
Pos(m) == [neg |-> FALSE, mag |-> m]
FZero == Pos(<<>>)
FAdd(x, y) == FRound(BnAdd(x, y), FracBits, FALSE)

\* x + y, rounded
\* the exact sum of two signed naturals
ExactAddS(x, y, c) ==
    IF x.neg = y.neg THEN [neg |-> x.neg, mag |-> BnAdd(x.mag, y.mag)]
    ELSE IF c = 0 THEN FZero
    ELSE IF c > 0 THEN [neg |-> x.neg, mag |-> BnSub(x.mag, y.mag)]
    ELSE [neg |-> y.neg, mag |-> BnSub(y.mag, x.mag)]

RoundS(x) == [neg |-> x.neg, mag |-> FRound(x.mag, FracBits, FALSE)]

FAddS(x, y) == RoundS(ExactAddS(x, y, BnCmp(x.mag, y.mag)))

FNeg(x) == IF x.mag = <<>> THEN x ELSE [neg |-> ~x.neg, mag |-> x.mag]
FSubS(x, y) == FAddS(x, FNeg(y))

\* x <= y for floats x, y >= 0
FLe(x, y) == BnCmp(x, y) <= 0

\* ------------------------------------------------------------------------
\* Data model (src/main.py 17-64)
\* ------------------------------------------------------------------------
PoliticalStabilityMetrics ==
    <<"government_legitimacy", "political_violence", "institutional_strength",
      "leadership_stability">>
SecurityEnvironmentMetrics ==
    <<"internal_conflict", "regional_security", "law_enforcement", "military_factors">>
EconomicStabilityMetrics ==
    <<"economic_performance", "fiscal_health", "trade_dependencies",
      "infrastructure_resilience">>
SocialIndicatorsMetrics ==
    <<"social_cohesion", "human_development", "demographic_pressures",
      "information_environment">>
IllicitMarketsMetrics ==
    <<"drug_trade", "human_trafficking", "arms_trafficking", "financial_crimes",
      "cybercrime_operations", "state_response_capacity">>

Range(s) == {s[i] : i \in 1..Len(s)}

\* the five metrics attributes of CountryData, each with its dataclass
Categories ==
    <<"political_stability", "security_environment", "economic_stability",
      "social_indicators", "illicit_markets">>

MetricsClass ==
    [political_stability  |-> PoliticalStabilityMetrics,
     security_environment |-> SecurityEnvironmentMetrics,
     economic_stability   |-> EconomicStabilityMetrics,
     social_indicators    |-> SocialIndicatorsMetrics,
     illicit_markets      |-> IllicitMarketsMetrics]

\* the sliders of the form run from 1 to 10
MinIndicator == 1
MaxIndicator == 10

None == [none |-> TRUE]

\* CountryData(name, five metrics objects, three notes); a metrics object is the
\* function from its dataclass fields to their values
CountryData(name, ps, se, es, si, im, krf, ta, rec) ==
    [name                 |-> name,
     political_stability  |-> ps,
     security_environment |-> se,
     economic_stability   |-> es,
     social_indicators    |-> si,
     illicit_markets      |-> im,
     key_risk_factors     |-> krf,
     trend_analysis       |-> ta,
     recommendations      |-> rec]

\* ------------------------------------------------------------------------
\* Scoring (src/main.py 66-131)
\* ------------------------------------------------------------------------
\* the decimal literals of WEIGHTS, as <<numerator, denominator>>
\* a table whose weights do not add up to one
WEIGHTS_political_35 ==
    [political_stability  |-> <<35, 100>>,
     security_environment |-> <<20, 100>>,
     economic_stability   |-> <<20, 100>>,
     social_indicators    |-> <<15, 100>>,
     illicit_markets      |-> <<20, 100>>]

WEIGHTS ==
    [political_stability  |-> <<25, 100>>,
     security_environment |-> <<20, 100>>,
     economic_stability   |-> <<20, 100>>,
     social_indicators    |-> <<15, 100>>,
     illicit_markets      |-> <<20, 100>>]

\* the float a decimal literal denotes
Literal(d) == FromRatio(d[1], d[2])

RECURSIVE SumInts(_, _)
SumInts(f, S) ==
    IF S = {} THEN 0
    ELSE LET x == CHOOSE y \in S : TRUE
         IN  f[x] + SumInts(f, S \ {x})

\* the mean with the length of the four-field categories written in
calculate_category_score_len4(category_metrics) ==
    IF category_metrics = None
    THEN <<>>
    ELSE FromRatio(SumInts(category_metrics, DOMAIN category_metrics), 4)

\* sum(scores) / len(scores) over the fields of the metrics object; 0.0 for None
calculate_category_score(category_metrics) ==
    IF category_metrics = None
    THEN <<>>
    ELSE FromRatio(SumInts(category_metrics, DOMAIN category_metrics),
                   Cardinality(DOMAIN category_metrics))

\* sum() of a non-empty list of positive floats, left to right (CPython up to 3.11)
RECURSIVE SumNaive(_, _, _)
SumNaive(xs, i, total) ==
    IF i > Len(xs) THEN total
    ELSE SumNaive(xs, i + 1, FAdd(total, xs[i]))

\* sum() with Neumaier's compensation (CPython from 3.12)
RECURSIVE SumCompensated(_, _, _, _)
\* (big - t) + small, where t is total + x rounded and big the larger of total, x
Compensation(big, small, t) == FAddS(FSubS(Pos(big), Pos(t)), Pos(small))

SumCompensated(xs, i, total, c) ==
    IF i > Len(xs)
    THEN IF c.mag # <<>> THEN FAddS(Pos(total), c).mag ELSE total
    ELSE SumCompensated(xs, i + 1, FAdd(total, xs[i]),
             FAddS(c, IF BnCmp(total, xs[i]) >= 0
                      THEN Compensation(total, xs[i], FAdd(total, xs[i]))
                      ELSE Compensation(xs[i], total, FAdd(total, xs[i]))))

\* the builtin sum of a non-empty list of positive floats: 0 + xs[1] is xs[1]
PySum(xs, mode) ==
    IF mode = "compensated"
    THEN SumCompensated(xs, 2, xs[1], FZero)
    ELSE SumNaive(xs, 2, xs[1])

SumModes == {"naive", "compensated"}

\* the floats the literals of WEIGHTS denote
WeightFloat == [c \in DOMAIN WEIGHTS |-> Literal(WEIGHTS[c])]

\* political_stability and social_indicators weighted with each other's weight
weighted_scores_swapped(self) ==
    << FMul(calculate_category_score(self.political_stability),
            WeightFloat["social_indicators"]),
       FMul(calculate_category_score(self.security_environment),
            WeightFloat["security_environment"]),
       FMul(calculate_category_score(self.economic_stability),
            WeightFloat["economic_stability"]),
       FMul(calculate_category_score(self.social_indicators),
            WeightFloat["political_stability"]),
       FMul(calculate_category_score(self.illicit_markets),
            WeightFloat["illicit_markets"]) >>

weighted_scores(self) ==
    << FMul(calculate_category_score(self.political_stability),
            WeightFloat["political_stability"]),
       FMul(calculate_category_score(self.security_environment),
            WeightFloat["security_environment"]),
       FMul(calculate_category_score(self.economic_stability),
            WeightFloat["economic_stability"]),
       FMul(calculate_category_score(self.social_indicators),
            WeightFloat["social_indicators"]),
       FMul(calculate_category_score(self.illicit_markets),
            WeightFloat["illicit_markets"]) >>

\* the first weighted score never appended
calculate_threat_score_skip_first(self, mode) == PySum(Tail(weighted_scores(self)), mode)

calculate_threat_score(self, mode) == PySum(weighted_scores(self), mode)

\* the float literals of get_threat_level
Lit1_0  == Literal(<<10, 10>>)
Lit2_0  == Literal(<<20, 10>>)
Lit2_1  == Literal(<<21, 10>>)
Lit4_0  == Literal(<<40, 10>>)
Lit4_1  == Literal(<<41, 10>>)
Lit6_0  == Literal(<<60, 10>>)
Lit6_1  == Literal(<<61, 10>>)
Lit8_0  == Literal(<<80, 10>>)
Lit8_1  == Literal(<<81, 10>>)
Lit10_0 == Literal(<<100, 10>>)

\* the chain with each band running up to the next one: no gaps
LevelOfScore_gapless(score) ==
    IF FLe(Lit1_0, score) /\ ~FLe(Lit2_1, score) THEN "LOW"
    ELSE IF FLe(Lit2_1, score) /\ ~FLe(Lit4_1, score) THEN "MODERATE"
    ELSE IF FLe(Lit4_1, score) /\ ~FLe(Lit6_1, score) THEN "ELEVATED"
    ELSE IF FLe(Lit6_1, score) /\ ~FLe(Lit8_1, score) THEN "HIGH"
    ELSE IF FLe(Lit8_1, score) /\ FLe(score, Lit10_0) THEN "EXTREME"
    ELSE "UNDEFINED"

\* the if/elif chain on a score
LevelOfScore(score) ==
    IF FLe(Lit1_0, score) /\ FLe(score, Lit2_0) THEN "LOW"
    ELSE IF FLe(Lit2_1, score) /\ FLe(score, Lit4_0) THEN "MODERATE"
    ELSE IF FLe(Lit4_1, score) /\ FLe(score, Lit6_0) THEN "ELEVATED"
    ELSE IF FLe(Lit6_1, score) /\ FLe(score, Lit8_0) THEN "HIGH"
    ELSE IF FLe(Lit8_1, score) /\ FLe(score, Lit10_0) THEN "EXTREME"
    ELSE "UNDEFINED"

get_threat_level(self, mode) == LevelOfScore(calculate_threat_score(self, mode))

descriptions ==
    [LOW       |-> "Stable with minimal risks",
     MODERATE  |-> "Some concerns but manageable",
     ELEVATED  |-> "Significant risks requiring monitoring",
     HIGH      |-> "Serious threats with potential for instability",
     EXTREME   |-> "Critical threats with high probability of crisis",
     UNDEFINED |-> "Score out of range."]

get_threat_description(self, mode) ==
    LET level == get_threat_level(self, mode)
    IN  IF level \in DOMAIN descriptions THEN descriptions[level] ELSE "N/A"

colors_map ==
    [LOW       |-> "#28a745",
     MODERATE  |-> "#ffc107",
     ELEVATED  |-> "#17a2b8",
     HIGH      |-> "#fd7e14",
     EXTREME   |-> "#dc3545",
     UNDEFINED |-> "#6c757d"]

get_threat_color(self, mode) ==
    LET level == get_threat_level(self, mode)
    IN  IF level \in DOMAIN colors_map THEN colors_map[level] ELSE "#6c757d"

\* ------------------------------------------------------------------------
\* DatabaseHandler (src/main.py 141-310): the table countries of the SQLite file
\* ------------------------------------------------------------------------
\* SQL NULL in a row, Python None in a record: a value no note of the model equals
NULL == "<NULL>"

\* the columns of CREATE TABLE, in order: SELECT * returns them in this order
TableColumns ==
    <<"id", "name",
      "ps_government_legitimacy", "ps_political_violence",
      "ps_institutional_strength", "ps_leadership_stability",
      "se_internal_conflict", "se_regional_security",
      "se_law_enforcement", "se_military_factors",
      "es_economic_performance", "es_fiscal_health",
      "es_trade_dependencies", "es_infrastructure_resilience",
      "si_social_cohesion", "si_human_development",
      "si_demographic_pressures", "si_information_environment",
      "im_drug_trade", "im_human_trafficking", "im_arms_trafficking",
      "im_financial_crimes", "im_cybercrime_operations",
      "im_state_response_capacity",
      "key_risk_factors", "trend_analysis", "recommendations",
      "created_at", "updated_at">>

\* the column list of INSERT OR REPLACE, in order
InsertColumns ==
    <<"name",
      "ps_government_legitimacy", "ps_political_violence",
      "ps_institutional_strength", "ps_leadership_stability",
      "se_internal_conflict", "se_regional_security",
      "se_law_enforcement", "se_military_factors",
      "es_economic_performance", "es_fiscal_health",
      "es_trade_dependencies", "es_infrastructure_resilience",
      "si_social_cohesion", "si_human_development",
      "si_demographic_pressures", "si_information_environment",
      "im_drug_trade", "im_human_trafficking", "im_arms_trafficking",
      "im_financial_crimes",
      "im_cybercrime_operations", "im_state_response_capacity",
      "key_risk_factors", "trend_analysis", "recommendations",
      "updated_at">>

\* the parameter tuple bound to the 26 placeholders
SaveParams(c) ==
    <<c.name,
      c.political_stability.government_legitimacy,
      c.political_stability.political_violence,
      c.political_stability.institutional_strength,
      c.political_stability.leadership_stability,
      c.security_environment.internal_conflict,
      c.security_environment.regional_security,
      c.security_environment.law_enforcement,
      c.security_environment.military_factors,
      c.economic_stability.economic_performance,
      c.economic_stability.fiscal_health,
      c.economic_stability.trade_dependencies,
      c.economic_stability.infrastructure_resilience,
      c.social_indicators.social_cohesion,
      c.social_indicators.human_development,
      c.social_indicators.demographic_pressures,
      c.social_indicators.information_environment,
      c.illicit_markets.drug_trade,
      c.illicit_markets.human_trafficking,
      c.illicit_markets.arms_trafficking,
      c.illicit_markets.financial_crimes,
      c.illicit_markets.cybercrime_operations,
      c.illicit_markets.state_response_capacity,
      c.key_risk_factors,
      c.trend_analysis,
      c.recommendations>>

IndexOf(s, x) == CHOOSE i \in 1..Len(s) : s[i] = x

\* VALUES (?, ..., ?, CURRENT_TIMESTAMP): the 26 parameters, then the time
InsertValues(c, now) == SaveParams(c) \o <<now>>

\* the row INSERT builds: the listed columns from VALUES, id from AUTOINCREMENT,
\* created_at from its DEFAULT CURRENT_TIMESTAMP
InsertedRow(c, rowid, now) ==
    [col \in Range(TableColumns) |->
        IF col \in Range(InsertColumns)
        THEN InsertValues(c, now)[IndexOf(InsertColumns, col)]
        ELSE IF col = "id" THEN rowid
        ELSE now]

\* INSERT OR IGNORE in place of OR REPLACE: a conflicting row keeps the new one out
ReplaceInto_ignore(table, new) ==
    IF \E r \in table : r.name = new.name \/ r.id = new.id
    THEN table
    ELSE table \cup {new}

\* a REPLACE that empties the table when a row conflicts
ReplaceInto_truncate(table, new) ==
    IF \E r \in table : r.name = new.name \/ r.id = new.id
    THEN {new}
    ELSE table \cup {new}

\* a plain INSERT into a table whose name column is not UNIQUE
ReplaceInto_keep(table, new) == table \cup {new}

\* OR REPLACE: the rows that conflict with the new one on UNIQUE name (or on the
\* primary key) are deleted before it is inserted
ReplaceInto(table, new) ==
    {r \in table : r.name # new.name /\ r.id # new.id} \cup {new}

\* the row as the tuple SELECT * yields; Python's row[k] is its element k + 1
RowTuple(r) == [i \in 1..Len(TableColumns) |-> r[TableColumns[i]]]

\* the column as it is, without the or ""
OrEmpty_asis(x) == x

\* Python's x or ""
OrEmpty(x) == IF x = NULL \/ x = "" THEN "" ELSE x

\* load_all_countries with row[20] and row[21] read into each other's field
CountryFromRow_swapped(row) ==
    CountryData(
        row[1 + 1],
        [government_legitimacy  |-> row[2 + 1],
         political_violence     |-> row[3 + 1],
         institutional_strength |-> row[4 + 1],
         leadership_stability   |-> row[5 + 1]],
        [internal_conflict |-> row[6 + 1],
         regional_security |-> row[7 + 1],
         law_enforcement   |-> row[8 + 1],
         military_factors  |-> row[9 + 1]],
        [economic_performance      |-> row[10 + 1],
         fiscal_health             |-> row[11 + 1],
         trade_dependencies        |-> row[12 + 1],
         infrastructure_resilience |-> row[13 + 1]],
        [social_cohesion         |-> row[14 + 1],
         human_development       |-> row[15 + 1],
         demographic_pressures   |-> row[16 + 1],
         information_environment |-> row[17 + 1]],
        [drug_trade              |-> row[18 + 1],
         human_trafficking       |-> row[19 + 1],
         arms_trafficking        |-> row[21 + 1],
         financial_crimes        |-> row[20 + 1],
         cybercrime_operations   |-> row[22 + 1],
         state_response_capacity |-> row[23 + 1]],
        OrEmpty(row[24 + 1]),
        OrEmpty(row[25 + 1]),
        OrEmpty(row[26 + 1]))

\* the CountryData load_all_countries builds from row (0-based indices in the code)
CountryFromRow(row) ==
    CountryData(
        row[1 + 1],
        [government_legitimacy  |-> row[2 + 1],
         political_violence     |-> row[3 + 1],
         institutional_strength |-> row[4 + 1],
         leadership_stability   |-> row[5 + 1]],
        [internal_conflict |-> row[6 + 1],
         regional_security |-> row[7 + 1],
         law_enforcement   |-> row[8 + 1],
         military_factors  |-> row[9 + 1]],
        [economic_performance      |-> row[10 + 1],
         fiscal_health             |-> row[11 + 1],
         trade_dependencies        |-> row[12 + 1],
         infrastructure_resilience |-> row[13 + 1]],
        [social_cohesion         |-> row[14 + 1],
         human_development       |-> row[15 + 1],
         demographic_pressures   |-> row[16 + 1],
         information_environment |-> row[17 + 1]],
        [drug_trade              |-> row[18 + 1],
         human_trafficking       |-> row[19 + 1],
         arms_trafficking        |-> row[20 + 1],
         financial_crimes        |-> row[21 + 1],
         cybercrime_operations   |-> row[22 + 1],
         state_response_capacity |-> row[23 + 1]],
        OrEmpty(row[24 + 1]),
        OrEmpty(row[25 + 1]),
        OrEmpty(row[26 + 1]))

\* fetchall(): the rows in rowid order
RECURSIVE FetchAll(_)
FetchAll(table) ==
    IF table = {} THEN <<>>
    ELSE LET first == CHOOSE r \in table : \A q \in table : r.id <= q.id
         IN  <<RowTuple(first)>> \o FetchAll(table \ {first})

\* countries[row[1]] = country, row after row: a later row replaces an earlier key
RECURSIVE BuildDict(_, _, _)
BuildDict(fetched, i, countries) ==
    IF i > Len(fetched) THEN countries
    ELSE LET row  == fetched[i]
             rest == [n \in (DOMAIN countries) \ {row[1 + 1]} |-> countries[n]]
         IN  BuildDict(fetched, i + 1,
                       [n \in (DOMAIN rest) \cup {row[1 + 1]} |->
                           IF n = row[1 + 1] THEN CountryFromRow(row) ELSE rest[n]])

EmptyDict == [n \in {} |-> None]

load_all_countries(table) == BuildDict(FetchAll(table), 1, EmptyDict)

\* a DELETE without its WHERE clause
DeleteWhereName_all(table, country_name) == {}

\* a DELETE whose WHERE clause is negated
DeleteWhereName_others(table, country_name) == {r \in table : r.name = country_name}

\* DELETE FROM countries WHERE name = ?
DeleteWhereName(table, country_name) == {r \in table : r.name # country_name}

\* ------------------------------------------------------------------------
\* Inputs
\* ------------------------------------------------------------------------
\* where each dataclass starts in the 22 indicators taken in declaration order
FieldOffset ==
    [political_stability  |-> 0,
     security_environment |-> 4,
     economic_stability   |-> 8,
     social_indicators    |-> 12,
     illicit_markets      |-> 16]

NumIndicators == 22

Metrics(cat, v) ==
    [f \in Range(MetricsClass[cat]) |-> v[FieldOffset[cat] + IndexOf(MetricsClass[cat], f)]]

\* the record with indicators v (22 values in declaration order) and notes n
CountryOf(name, v, n) ==
    CountryData(name,
                Metrics("political_stability", v),
                Metrics("security_environment", v),
                Metrics("economic_stability", v),
                Metrics("social_indicators", v),
                Metrics("illicit_markets", v),
                n[1], n[2], n[3])

CategoryOfPosition(i) ==
    CHOOSE c \in Range(Categories) :
        FieldOffset[c] < i /\ i <= FieldOffset[c] + Len(MetricsClass[c])

\* scoring inputs: every category uniform, uniform records with one indicator moved,
\* and the records with all indicators equal, on the scale and just outside it (the
\* dataclasses reject no value)
ScoreValues == {1, 3, 8, 10}
UniformRecord(u) ==
    [i \in 1..NumIndicators |-> u[IndexOf(Categories, CategoryOfPosition(i))]]
OneOffRecord(b, p, x) == [i \in 1..NumIndicators |-> IF i = p THEN x ELSE b]
ScoreIndicators ==
    {UniformRecord(u) : u \in [1..Len(Categories) -> ScoreValues]}
    \cup {OneOffRecord(b, p, x) : b \in {1, 6, 10}, p \in 1..NumIndicators, x \in {2, 9}}
    \cup {[i \in 1..NumIndicators |-> x] : x \in (MinIndicator - 1)..(MaxIndicator + 1)}
ScoreInputs == {CountryOf("A", v, <<"", "", "">>) : v \in ScoreIndicators}

\* repository inputs: two indicator patterns that together tell all 22 positions
\* apart, with notes empty, all different, or absent; and one record with its first
\* indicator below the scale and its last above it, which the dataclasses, declaring
\* no __post_init__, construct like any other
Names == {"A", "B"}
StoreIndicators ==
    {[i \in 1..NumIndicators |-> ((i - 1) % MaxIndicator) + MinIndicator],
     [i \in 1..NumIndicators |-> ((i - 1) \div MaxIndicator) + MinIndicator]}
StoreNotes == {<<"", "", "">>, <<"k", "t", "r">>, <<NULL, "t", NULL>>}
OutOfScaleIndicators ==
    [i \in 1..NumIndicators |->
        IF i = 1 THEN MinIndicator - 1
        ELSE IF i = NumIndicators THEN MaxIndicator + 1
        ELSE MinIndicator]
StoreInputs ==
    {CountryOf(n, v, t) : n \in Names, v \in StoreIndicators, t \in StoreNotes}
    \cup {CountryOf("A", OutOfScaleIndicators, <<"", "", "">>)}

\* the indicators of a record, in declaration order
Indicators(c) ==
    [i \in 1..NumIndicators |->
        LET cat == CategoryOfPosition(i)
        IN  c[cat][MetricsClass[cat][i - FieldOffset[cat]]]]

\* a record as the type hints of CountryData declare it and the form builds it
ValidRecord(c) ==
    /\ \A i \in 1..NumIndicators :
          Indicators(c)[i] \in MinIndicator..MaxIndicator
    /\ c.key_risk_factors # NULL
    /\ c.trend_analysis # NULL
    /\ c.recommendations # NULL

\* ------------------------------------------------------------------------
\* State
\* ------------------------------------------------------------------------
VARIABLES
    country,    \* the CountryData a scoring method is called on (None: none)
    pysum,      \* which sum() the interpreter running the program has
    ret,        \* the last call of a scoring method and what it returned
    tables,     \* the tables of the database file
    rows,       \* the rows of the table countries
    seq,        \* sqlite_sequence: the largest id AUTOINCREMENT has handed out
    clock,      \* CURRENT_TIMESTAMP
    last,       \* the last repository call: its arguments and the record that
                \* load_all_countries returned under its name before it
    saved,      \* history: the names whose most recent save_country or
                \* delete_country call was a save_country
    form,       \* the input form: the text of the name entry, the sliders, the notes
    countries,  \* CountryRiskApp.countries, the in-memory mapping
    conn,       \* per caller of save_country: where it is in the method, its
                \* argument, the table as its transaction found it and as it has
                \* written it, and (history) whether its call and the other
                \* caller's present call were under way at the same time
    lock,       \* the caller whose transaction holds the write lock of the
                \* database file (0: none)
    country_dropdown,   \* the Combobox: its list of values and the text it shows
    country_listbox     \* the Listbox: its entries, top to bottom

vars == <<country, pysum, ret, tables, rows, seq, clock, last, saved,
          form, countries, conn, lock, country_dropdown, country_listbox>>

MaxRowId == 3
MaxClock == 1

NoCall == [op |-> "none"]

\* the callers of save_country that can run at the same time
Procs == {1, 2}
NoTxn == [before |-> {}, after |-> {}]
Idle == [pc |-> "idle", arg |-> None, txn |-> NoTxn, overlap |-> FALSE]
NoForm == [name |-> <<>>, sliders |-> <<>>, notes |-> <<>>]
\* ttk.Combobox(state="readonly") as created: no values, get() returns ''
NoDropdown == [values |-> <<>>, text |-> <<>>]

Lookup(mapping, n) == IF n \in DOMAIN mapping THEN mapping[n] ELSE None

\* ------------------------------------------------------------------------
\* Repository operations
\* ------------------------------------------------------------------------
\* DROP TABLE IF EXISTS countries, then CREATE TABLE countries
init_database_recreate ==
    /\ tables' = tables \cup {"countries"}
    /\ rows' = {}
    /\ last' = [op |-> "init_database", name |-> "", country |-> None, prior |-> None]
    /\ UNCHANGED <<country, pysum, ret, seq, clock, saved>>
    /\ UNCHANGED <<country_dropdown, country_listbox, form, countries, conn, lock>>

\* CREATE TABLE IF NOT EXISTS countries
init_database ==
    /\ tables' = tables \cup {"countries"}
    /\ rows' = IF "countries" \in tables THEN rows ELSE {}
    /\ last' = [op |-> "init_database", name |-> "", country |-> None, prior |-> None]
    /\ UNCHANGED <<country, pysum, ret, seq, clock, saved>>
    /\ UNCHANGED <<country_dropdown, country_listbox, form, countries, conn, lock>>

\* the committed INSERT OR REPLACE of save_country
InsertOrReplace(c) ==
    /\ rows' = ReplaceInto(rows, InsertedRow(c, seq + 1, clock))
    /\ seq' = seq + 1
    /\ last' = [op |-> "save_country", name |-> c.name, country |-> c,
                prior |-> Lookup(load_all_countries(rows), c.name)]
    /\ saved' = saved \cup {c.name}

save_country(c) ==
    /\ "countries" \in tables
    /\ seq < MaxRowId
    /\ InsertOrReplace(c)
    /\ UNCHANGED <<country, pysum, ret, tables, clock>>
    /\ UNCHANGED <<country_dropdown, country_listbox, form, countries, conn, lock>>

\* the committed DELETE of delete_country
DeleteRow(country_name) ==
    /\ rows' = DeleteWhereName(rows, country_name)
    /\ last' = [op |-> "delete_country", name |-> country_name, country |-> None,
                prior |-> Lookup(load_all_countries(rows), country_name)]
    /\ saved' = saved \ {country_name}

delete_country(country_name) ==
    /\ "countries" \in tables
    /\ DeleteRow(country_name)
    /\ UNCHANGED <<country, pysum, ret, tables, seq, clock>>
    /\ UNCHANGED <<country_dropdown, country_listbox, form, countries, conn, lock>>

\* time passes between calls
Tick ==
    /\ clock < MaxClock
    /\ clock' = clock + 1
    /\ UNCHANGED <<country, pysum, ret, tables, rows, seq, last, saved>>
    /\ UNCHANGED <<country_dropdown, country_listbox, form, countries, conn, lock>>

Init ==
    /\ country = None
    /\ pysum = "naive"
    /\ ret = NoCall
    /\ tables = {"countries"}
    /\ rows = {}
    /\ seq = 0
    /\ clock = 0
    /\ last = [op |-> "none", name |-> "", country |-> None, prior |-> None]
    /\ saved = {}
    /\ form = NoForm
    /\ countries = EmptyDict
    /\ conn = [p \in Procs |-> Idle]
    /\ lock = 0
    /\ country_dropdown = NoDropdown
    /\ country_listbox = <<>>

Next ==
    \/ init_database
    \/ \E c \in StoreInputs : save_country(c)
    \/ \E n \in Names : delete_country(n)
    \/ Tick

Spec == Init /\ [][Next]_vars

\* ------------------------------------------------------------------------
\* Scoring calls: one call of one method on the record, which returns ret
\* ------------------------------------------------------------------------
CallCategoryScore(cat) ==
    /\ country # None /\ ret = NoCall
    /\ ret' = [op |-> "calculate_category_score", arg |-> cat,
               value |-> calculate_category_score(
                             IF cat = "None" THEN None ELSE country[cat])]
    /\ UNCHANGED <<country, pysum, tables, rows, seq, clock, last, saved>>
    /\ UNCHANGED <<country_dropdown, country_listbox, form, countries, conn, lock>>

\* a calculate_threat_score that keeps a mark of its call on the record
CallThreatScore_marking ==
    /\ country # None /\ ret = NoCall
    /\ ret' = [op |-> "calculate_threat_score", arg |-> "",
               value |-> calculate_threat_score(country, pysum)]
    /\ country' = [country EXCEPT !.recommendations = "scored"]
    /\ UNCHANGED <<pysum, tables, rows, seq, clock, last, saved>>
    /\ UNCHANGED <<country_dropdown, country_listbox, form, countries, conn, lock>>

CallThreatScore ==
    /\ country # None /\ ret = NoCall
    /\ ret' = [op |-> "calculate_threat_score", arg |-> "",
               value |-> calculate_threat_score(country, pysum)]
    /\ UNCHANGED <<country, pysum, tables, rows, seq, clock, last, saved>>
    /\ UNCHANGED <<country_dropdown, country_listbox, form, countries, conn, lock>>

CallThreatLevel ==
    /\ country # None /\ ret = NoCall
    /\ ret' = [op |-> "get_threat_level", arg |-> "",
               value |-> get_threat_level(country, pysum)]
    /\ UNCHANGED <<country, pysum, tables, rows, seq, clock, last, saved>>
    /\ UNCHANGED <<country_dropdown, country_listbox, form, countries, conn, lock>>

CallThreatDescription ==
    /\ country # None /\ ret = NoCall
    /\ ret' = [op |-> "get_threat_description", arg |-> "",
               value |-> get_threat_description(country, pysum)]
    /\ UNCHANGED <<country, pysum, tables, rows, seq, clock, last, saved>>
    /\ UNCHANGED <<country_dropdown, country_listbox, form, countries, conn, lock>>

CallThreatColor ==
    /\ country # None /\ ret = NoCall
    /\ ret' = [op |-> "get_threat_color", arg |-> "",
               value |-> get_threat_color(country, pysum)]
    /\ UNCHANGED <<country, pysum, tables, rows, seq, clock, last, saved>>
    /\ UNCHANGED <<country_dropdown, country_listbox, form, countries, conn, lock>>

InitScore ==
    /\ country \in ScoreInputs
    /\ pysum \in SumModes
    /\ ret = NoCall
    /\ tables = {"countries"}
    /\ rows = {}
    /\ seq = 0
    /\ clock = 0
    /\ last = [op |-> "none", name |-> "", country |-> None, prior |-> None]
    /\ saved = {}
    /\ form = NoForm
    /\ countries = EmptyDict
    /\ conn = [p \in Procs |-> Idle]
    /\ lock = 0
    /\ country_dropdown = NoDropdown
    /\ country_listbox = <<>>

NextScore ==
    \/ \E cat \in Range(Categories) \cup {"None"} : CallCategoryScore(cat)
    \/ CallThreatScore
    \/ CallThreatLevel
    \/ CallThreatDescription
    \/ CallThreatColor

SpecScore == InitScore /\ [][NextScore]_vars

\* ------------------------------------------------------------------------
\* save_country statement by statement, for callers with a connection each
\* ------------------------------------------------------------------------
\* two records of one name that differ in every indicator and note, and a record
\* of another name
TxnInputs ==
    {CountryOf("A", [i \in 1..NumIndicators |-> MinIndicator], <<"", "", "">>),
     CountryOf("A", [i \in 1..NumIndicators |-> MaxIndicator], <<"k", "t", "r">>),
     CountryOf("B", [i \in 1..NumIndicators |-> MinIndicator], <<"", "", "">>)}

Busy(p) == conn[p].pc \in {"connected", "executed"}

\* conn = sqlite3.connect(self.db_path); cursor = conn.cursor()
Connect(p, c) ==
    /\ conn[p].pc = "idle"
    /\ seq < MaxRowId
    /\ conn' = [q \in Procs |->
                   IF q = p
                   THEN [pc |-> "connected", arg |-> c, txn |-> NoTxn,
                         overlap |-> \E o \in Procs \ {p} : Busy(o)]
                   ELSE [conn[q] EXCEPT !.overlap = Busy(q)]]
    /\ UNCHANGED <<country, pysum, ret, tables, rows, seq, clock, last, saved>>
    /\ UNCHANGED <<country_dropdown, country_listbox, form, countries, lock>>

\* a storage engine that lets every connection write at once
CanWrite_unlocked(p) == TRUE

\* the INSERT needs the write lock of the database file, which one connection holds
\* from its first write until its transaction ends
CanWrite(p) == lock = 0

\* cursor.execute(INSERT OR REPLACE ...): the statement opens a transaction, takes
\* the write lock and changes the table inside the transaction only
Execute(p) ==
    /\ conn[p].pc = "connected"
    /\ CanWrite(p)
    /\ lock' = p
    /\ conn' = [conn EXCEPT ![p].pc = "executed",
                            ![p].txn =
                                [before |-> rows,
                                 after  |-> ReplaceInto(rows,
                                               InsertedRow(conn[p].arg, seq + 1, clock))]]
    /\ UNCHANGED <<country, pysum, ret, tables, rows, seq, clock, last, saved>>
    /\ UNCHANGED <<country_dropdown, country_listbox, form, countries>>

\* cursor.execute raises sqlite3.OperationalError (database is locked) when another
\* connection keeps the write lock past the timeout; nothing catches it
ExecuteLocked(p) ==
    /\ conn[p].pc = "connected"
    /\ ~CanWrite(p)
    /\ conn' = [conn EXCEPT ![p].pc = "raised"]
    /\ UNCHANGED <<country, pysum, ret, tables, rows, seq, clock, last, saved>>
    /\ UNCHANGED <<country_dropdown, country_listbox, form, countries, lock>>

\* the table once the transaction txn is committed: its deletions and insertions
Committed(table, txn) == (table \ (txn.before \ txn.after)) \cup (txn.after \ txn.before)

\* a transaction whose writes stay when it ends without commit
Abandoned_kept(table, txn) == Committed(table, txn)

\* the table once the transaction txn ends without commit: rolled back
Abandoned(table, txn) == table

\* conn.commit(); conn.close()
Commit(p) ==
    /\ conn[p].pc = "executed"
    /\ rows' = Committed(rows, conn[p].txn)
    /\ seq' = seq + 1
    /\ last' = [op |-> "save_country", name |-> conn[p].arg.name,
                country |-> conn[p].arg,
                prior |-> Lookup(load_all_countries(rows), conn[p].arg.name)]
    /\ saved' = saved \cup {conn[p].arg.name}
    /\ lock' = IF lock = p THEN 0 ELSE lock
    /\ conn' = [conn EXCEPT ![p].pc = "returned"]
    /\ UNCHANGED <<country, pysum, ret, tables, clock>>
    /\ UNCHANGED <<country_dropdown, country_listbox, form, countries>>

\* the write fails or the call is interrupted after execute and before commit: the
\* exception leaves save_country and the connection goes without commit
Interrupt(p) ==
    /\ conn[p].pc = "executed"
    /\ rows' = Abandoned(rows, conn[p].txn)
    /\ lock' = IF lock = p THEN 0 ELSE lock
    /\ conn' = [conn EXCEPT ![p].pc = "interrupted"]
    /\ UNCHANGED <<country, pysum, ret, tables, seq, clock, last, saved>>
    /\ UNCHANGED <<country_dropdown, country_listbox, form, countries>>

\* the caller, back from the call or its exception, is free to call again
Return(p) ==
    /\ conn[p].pc \in {"returned", "raised", "interrupted"}
    /\ conn' = [conn EXCEPT ![p] = Idle]
    /\ UNCHANGED <<country, pysum, ret, tables, rows, seq, clock, last, saved>>
    /\ UNCHANGED <<country_dropdown, country_listbox, form, countries, lock>>

NextTxn ==
    \/ \E p \in Procs : \E c \in TxnInputs : Connect(p, c)
    \/ \E p \in Procs : Execute(p)
    \/ \E p \in Procs : ExecuteLocked(p)
    \/ \E p \in Procs : Commit(p)
    \/ \E p \in Procs : Interrupt(p)
    \/ \E p \in Procs : Return(p)

SpecTxn == Init /\ [][NextTxn]_vars

\* ------------------------------------------------------------------------
\* The form: CountryRiskApp.add_country on what the user has entered
\* ------------------------------------------------------------------------
\* a text is a sequence of characters; the characters told apart are a letter, a
\* digit, the space, the hyphen and one character that is none of these
Letters == {"B"}
Digits == {"2"}
Chars == Letters \cup Digits \cup {" ", "-", "$"}
MaxNameLen == 3
Texts == UNION {[1..n -> Chars] : n \in 0..MaxNameLen}

IsSpace(ch) == ch = " "
IsAlnumChar(ch) == ch \in Letters \cup Digits

\* str.strip()
RECURSIVE LStrip(_)
LStrip(t) == IF t # <<>> /\ IsSpace(Head(t)) THEN LStrip(Tail(t)) ELSE t
RECURSIVE RStrip(_)
RStrip(t) ==
    IF t # <<>> /\ IsSpace(t[Len(t)]) THEN RStrip(SubSeq(t, 1, Len(t) - 1)) ELSE t
Strip(t) == RStrip(LStrip(t))

\* str.replace(ch, '')
RECURSIVE Remove(_, _)
Remove(t, ch) ==
    IF t = <<>> THEN <<>>
    ELSE IF Head(t) = ch THEN Remove(Tail(t), ch)
    ELSE <<Head(t)>> \o Remove(Tail(t), ch)

\* str.isalnum(): at least one character, and every character alphanumeric
IsAlnum(t) == t # <<>> /\ \A i \in 1..Len(t) : IsAlnumChar(t[i])

\* what the form can hold: any text in the name entry, sliders on the scale, notes
\* as Text.get().strip() returns them
FormInputs ==
    {[name |-> t, sliders |-> v, notes |-> n] :
        t \in Texts, v \in StoreIndicators, n \in {<<"", "", "">>, <<"k", "t", "r">>}}

\* ord() of the characters told apart
Ord(ch) ==
    CASE ch = " " -> 32
      [] ch = "$" -> 36
      [] ch = "-" -> 45
      [] ch = "2" -> 50
      [] ch = "B" -> 66

\* a < b for str
RECURSIVE StrLess(_, _)
StrLess(a, b) ==
    IF b = <<>> THEN FALSE
    ELSE IF a = <<>> THEN TRUE
    ELSE IF Head(a) = Head(b) THEN StrLess(Tail(a), Tail(b))
    ELSE Ord(Head(a)) < Ord(Head(b))

\* sorted(keys)
RECURSIVE Sorted(_)
Sorted(keys) ==
    IF keys = {} THEN <<>>
    ELSE LET least == CHOOSE k \in keys : \A other \in keys \ {k} : StrLess(k, other)
         IN  <<least>> \o Sorted(keys \ {least})

\* the names of the threat levels, character by character
LevelText ==
    [LOW       |-> <<"L", "O", "W">>,
     MODERATE  |-> <<"M", "O", "D", "E", "R", "A", "T", "E">>,
     ELEVATED  |-> <<"E", "L", "E", "V", "A", "T", "E", "D">>,
     HIGH      |-> <<"H", "I", "G", "H">>,
     EXTREME   |-> <<"E", "X", "T", "R", "E", "M", "E">>,
     UNDEFINED |-> <<"U", "N", "D", "E", "F", "I", "N", "E", "D">>]

\* the digits of a natural number n
RECURSIVE DecimalText(_)
DecimalText(n) ==
    IF n < 10 THEN <<<<"0", "1", "2", "3", "4", "5", "6", "7", "8", "9">>[n + 1]>>
    ELSE DecimalText(n \div 10) \o DecimalText(n % 10)

\* the float score >= 0 in tenths, rounded to nearest (no float lies halfway
\* between two tenths: an odd multiple of 1/20 is not a binary fraction)
Tenths(score) ==
    BnShr(BnAdd(BnMulSmall(score, 10), BnShl(<<1>>, FracBits - 1)), FracBits)[1]

\* f"{score:.1f}"
Format1f(score) ==
    LET n == Limb(Tenths(score), 1) + Base * Limb(Tenths(score), 2)
    IN  DecimalText(n \div 10) \o <<".">> \o DecimalText(n % 10)

\* f"{name} - {threat_level} ({score:.1f})"
Display(name, c, mode) ==
    name \o <<" ", "-", " ">> \o LevelText[get_threat_level(c, mode)]
         \o <<" ", "(">> \o Format1f(calculate_threat_score(c, mode)) \o <<")">>

\* the Listbox entries: "(No countries saved)", or one entry per sorted name
ListEntries(mapping, country_names, mode) ==
    IF country_names = <<>>
    THEN << <<"(", "N", "o", " ", "c", "o", "u", "n", "t", "r", "i", "e", "s", " ",
              "s", "a", "v", "e", "d", ")">> >>
    ELSE [i \in 1..Len(country_names) |->
             Display(country_names[i], mapping[country_names[i]], mode)]

\* update_country_list on the mapping as the handler calling it has left it;
\* dropdown: the Combobox as it is when the method is called. The values are
\* replaced; set() is called only when there is a name
update_country_list(dropdown) ==
    /\ country_dropdown' =
           [values |-> Sorted(DOMAIN countries'),
            text   |-> IF DOMAIN countries' # {}
                       THEN Sorted(DOMAIN countries')[1] ELSE dropdown.text]
    /\ country_listbox' = ListEntries(countries', Sorted(DOMAIN countries'), pysum)

\* display_text.split(" - ")[0]
RECURSIVE SplitFirst(_)
SplitFirst(t) ==
    IF Len(t) < 3 THEN t
    ELSE IF SubSeq(t, 1, 3) = <<" ", "-", " ">> THEN <<>>
    ELSE <<Head(t)>> \o SplitFirst(Tail(t))

\* self.countries[name] = country_data
Assign(mapping, n, c) ==
    [k \in (DOMAIN mapping) \cup {n} |-> IF k = n THEN c ELSE mapping[k]]

\* showerror and return, before anything is built
ShowErrorAndReturn(message) ==
    /\ ret' = [op |-> "add_country", arg |-> form.name, value |-> message]
    /\ UNCHANGED <<country, pysum, tables, rows, seq, clock, last, saved>>
    /\ UNCHANGED <<country_dropdown, country_listbox, form, countries, conn, lock>>

\* the try block, for the name that passed both tests: save_country either
\* commits or raises, and the except clause shows what it raised
TryAdd(name) ==
    /\ seq < MaxRowId
    /\ countries' = Assign(countries, name, CountryOf(name, form.sliders, form.notes))
    /\ \/ /\ InsertOrReplace(CountryOf(name, form.sliders, form.notes))
          /\ update_country_list(country_dropdown)
          /\ ret' = [op |-> "add_country", arg |-> form.name, value |-> "Success"]
       \/ /\ ret' = [op |-> "add_country", arg |-> form.name,
                      value |-> "Error adding country"]
          /\ UNCHANGED <<rows, seq, last, saved, country_dropdown, country_listbox>>
    /\ UNCHANGED <<country, pysum, tables, clock, form, conn, lock>>

add_country ==
    IF Strip(form.name) = <<>>
    THEN ShowErrorAndReturn("Please enter a country name")
    ELSE IF ~IsAlnum(Remove(Remove(Strip(form.name), " "), "-"))
    THEN ShowErrorAndReturn("Country name contains invalid characters")
    ELSE TryAdd(Strip(form.name))

InitApp ==
    /\ country = None
    /\ pysum = "naive"
    /\ ret = NoCall
    /\ tables = {"countries"}
    /\ rows = {}
    /\ seq = 0
    /\ clock = 0
    /\ last = [op |-> "none", name |-> "", country |-> None, prior |-> None]
    /\ saved = {}
    /\ form \in FormInputs
    /\ countries = EmptyDict
    /\ conn = [p \in Procs |-> Idle]
    /\ lock = 0
    /\ country_dropdown = NoDropdown
    /\ country_listbox = <<>>

NextApp ==
    \/ add_country
    \/ Tick

SpecApp == InitApp /\ [][NextApp]_vars

\* ------------------------------------------------------------------------
\* The window: the handlers of CountryRiskApp on the form, the Combobox and
\* the Listbox, over the database file the application keeps between runs
\* ------------------------------------------------------------------------
\* the form as setup_ui builds it: empty entry, IntVar(value=5), empty notes
DefaultForm ==
    [name |-> <<>>, sliders |-> [i \in 1..NumIndicators |-> 5],
     notes |-> <<"", "", "">>]

\* what the user leaves in the form before pressing Save: one of two names, the
\* second holding the separator of the Listbox entries, and every slider at 1
GuiForms ==
    {[name |-> t, sliders |-> [i \in 1..NumIndicators |-> MinIndicator],
      notes |-> <<"", "", "">>] :
        t \in {<<"B">>, <<"B", " ", "-", " ", "2">>}}

\* the user edits the form
EditForm(f) ==
    /\ f # form
    /\ form' = f
    /\ UNCHANGED <<country, pysum, ret, tables, rows, seq, clock, last, saved>>
    /\ UNCHANGED <<countries, conn, lock, country_dropdown, country_listbox>>

\* the user picks one of the values of the read-only Combobox
SelectDropdown(i) ==
    /\ country_dropdown.values[i] # country_dropdown.text
    /\ country_dropdown' = [country_dropdown EXCEPT !.text = country_dropdown.values[i]]
    /\ UNCHANGED <<country, pysum, ret, tables, rows, seq, clock, last, saved>>
    /\ UNCHANGED <<form, countries, conn, lock, country_listbox>>

\* a handler that returns or raises with nothing written
Nothing(op, arg, value) ==
    /\ ret' = [op |-> op, arg |-> arg, value |-> value]
    /\ UNCHANGED <<country, pysum, tables, rows, seq, clock, last, saved>>
    /\ UNCHANGED <<form, countries, conn, lock, country_dropdown, country_listbox>>

\* askyesno answered yes and DELETE committed: the del statement raises KeyError
\* for a name the mapping does not hold, and the handler ends there
DeleteSelected(selected) ==
    /\ DeleteRow(selected)
    /\ IF selected \in DOMAIN countries
       THEN /\ countries' = [k \in (DOMAIN countries) \ {selected} |-> countries[k]]
            /\ update_country_list(country_dropdown)
            /\ ret' = [op |-> "delete_country", arg |-> selected, value |-> "Success"]
       ELSE /\ ret' = [op |-> "delete_country", arg |-> selected, value |-> "KeyError"]
            /\ UNCHANGED <<countries, country_dropdown, country_listbox>>
    /\ UNCHANGED <<country, pysum, tables, seq, clock, form, conn, lock>>

\* CountryRiskApp.delete_country
CountryRiskApp_delete_country ==
    IF country_dropdown.text = <<>>
    THEN Nothing("delete_country", <<>>, "Please select a country")
    ELSE \/ Nothing("delete_country", country_dropdown.text, "No")
         \/ Nothing("delete_country", country_dropdown.text, "raised")
         \/ DeleteSelected(country_dropdown.text)

\* CountryRiskApp.export_selected_to_pdf, up to the call of export_to_pdf
export_selected_to_pdf ==
    IF country_dropdown.text = <<>>
    THEN Nothing("export_selected_to_pdf", <<>>, "Please select a country")
    ELSE IF country_dropdown.text \in DOMAIN countries
    THEN Nothing("export_selected_to_pdf", country_dropdown.text, "export_to_pdf")
    ELSE Nothing("export_selected_to_pdf", country_dropdown.text, "KeyError")

\* the user double-clicks entry i of the Listbox; populate_form puts the name,
\* the indicators and the notes of the country into the form
load_country_from_listbox(i) ==
    /\ ret' = [op |-> "load_country_from_listbox", arg |-> i,
               value |-> SplitFirst(country_listbox[i]),
               loaded |-> SplitFirst(country_listbox[i]) \in DOMAIN countries]
    /\ form' = IF SplitFirst(country_listbox[i]) \in DOMAIN countries
               THEN LET c == countries[SplitFirst(country_listbox[i])]
                    IN  [name |-> c.name, sliders |-> Indicators(c),
                         notes |-> <<c.key_risk_factors, c.trend_analysis,
                                     c.recommendations>>]
               ELSE form
    /\ UNCHANGED <<country, pysum, tables, rows, seq, clock, last, saved>>
    /\ UNCHANGED <<countries, conn, lock, country_dropdown, country_listbox>>

\* the window is closed and the program started again: load_data (which leaves
\* an empty mapping when load_all_countries raises), setup_ui, update_country_list
CountryRiskApp_init ==
    /\ \/ /\ countries' = load_all_countries(rows)
          /\ ret' = [op |-> "__init__", arg |-> <<>>, value |-> "Loaded"]
       \/ /\ countries' = EmptyDict
          /\ ret' = [op |-> "__init__", arg |-> <<>>, value |-> "Error loading data"]
    /\ form' = DefaultForm
    /\ update_country_list(NoDropdown)
    /\ UNCHANGED <<country, pysum, tables, rows, seq, clock, last, saved, conn, lock>>

\* the window of the first run, over the empty table init_database created
InitGui ==
    /\ country = None
    /\ pysum = "naive"
    /\ ret = NoCall
    /\ tables = {"countries"}
    /\ rows = {}
    /\ seq = 0
    /\ clock = 0
    /\ last = [op |-> "none", name |-> "", country |-> None, prior |-> None]
    /\ saved = {}
    /\ form = DefaultForm
    /\ countries = EmptyDict
    /\ conn = [p \in Procs |-> Idle]
    /\ lock = 0
    /\ country_dropdown = NoDropdown
    /\ country_listbox = ListEntries(EmptyDict, <<>>, pysum)

NextGui ==
    \/ \E f \in GuiForms : EditForm(f)
    \/ add_country
    \/ \E i \in 1..Len(country_dropdown.values) : SelectDropdown(i)
    \/ CountryRiskApp_delete_country
    \/ export_selected_to_pdf
    \/ \E i \in 1..Len(country_listbox) : load_country_from_listbox(i)
    \/ CountryRiskApp_init

SpecGui == InitGui /\ [][NextGui]_vars

\* ------------------------------------------------------------------------
\* Properties of the scoring model (checked under SpecScore)
\* ------------------------------------------------------------------------
\* the float of a natural number below Base, exactly
FloatOfNat(n) == BnMulSmall(BnShl(<<1>>, FracBits), n)

\* |a - b| <= tol for naturals of arbitrary size
Within(a, b, tol) ==
    IF BnCmp(a, b) >= 0
    THEN BnCmp(BnSub(a, b), tol) <= 0
    ELSE BnCmp(BnSub(b, a), tol) <= 0

\* what float rounding may add up to in one score: 2^-45
Tolerance == Pow2(10)

SumPositions(v, from, to) == SumInts(v, from..to)

AllIndicators(c, x) == \A i \in 1..NumIndicators : Indicators(c)[i] = x

InRange(c) == \A i \in 1..NumIndicators : Indicators(c)[i] \in 1..10

\* C1: for every record whose 22 indicators are all in [1,10], calculate_threat_score
\* returns a value in [1.0, 10.0]; it returns 1.0 only when every indicator is 1 and
\* 10.0 only when every indicator is 10.
C1_ScoreInRange ==
    (ret.op = "calculate_threat_score" /\ InRange(country)) =>
        /\ FLe(FloatOfNat(1), ret.value)
        /\ FLe(ret.value, FloatOfNat(10))
        /\ (ret.value = FloatOfNat(1) => AllIndicators(country, 1))
        /\ (ret.value = FloatOfNat(10) => AllIndicators(country, 10))

C1_Witness ==
    /\ ret.op = "calculate_threat_score"
    /\ AllIndicators(country, 10)
    /\ ret.value = FloatOfNat(10)

\* the closed interval [lo/10, hi/10] of floats
Between(score, lo, hi) ==
    FLe(FromRatio(lo, 10), score) /\ FLe(score, FromRatio(hi, 10))

\* C2: get_threat_level maps the weighted score by closed intervals: [1.0,2.0] LOW,
\* [2.1,4.0] MODERATE, [4.1,6.0] ELEVATED, [6.1,8.0] HIGH, [8.1,10.0] EXTREME, and
\* every other score, in a gap between two bands or outside [1.0,10.0], UNDEFINED.
C2_LevelByClosedIntervals ==
    ret.op = "get_threat_level" =>
        LET score == calculate_threat_score(country, pysum)
        IN  /\ Between(score, 10, 20)  => ret.value = "LOW"
            /\ Between(score, 21, 40)  => ret.value = "MODERATE"
            /\ Between(score, 41, 60)  => ret.value = "ELEVATED"
            /\ Between(score, 61, 80)  => ret.value = "HIGH"
            /\ Between(score, 81, 100) => ret.value = "EXTREME"
            /\ (~Between(score, 10, 20) /\ ~Between(score, 21, 40)
                /\ ~Between(score, 41, 60) /\ ~Between(score, 61, 80)
                /\ ~Between(score, 81, 100)) => ret.value = "UNDEFINED"

\* a score strictly inside the gap (2.0, 2.1) was mapped
C2_Witness ==
    /\ ret.op = "get_threat_level"
    /\ ret.value = "UNDEFINED"
    /\ LET score == calculate_threat_score(country, pysum)
       IN  ~FLe(score, FloatOfNat(2)) /\ ~FLe(FromRatio(21, 10), score)

\* 1200 times the weighted sum of the category means, with the weights the specification gives
ExactScore1200(c) ==
    LET v == Indicators(c)
    IN  75 * SumPositions(v, 1, 4) + 60 * SumPositions(v, 5, 8)
        + 60 * SumPositions(v, 9, 12) + 45 * SumPositions(v, 13, 16)
        + 40 * SumPositions(v, 17, 22)

\* C3: calculate_threat_score is the sum over the five categories of category mean
\* times category weight, with weights 0.25, 0.20, 0.20, 0.15, 0.20 for
\* political_stability, security_environment, economic_stability, social_indicators,
\* illicit_markets (up to float rounding, 2^-45).
C3_WeightedSum ==
    ret.op = "calculate_threat_score" =>
        Within(BnMulSmall(ret.value, 1200),
               BnMul(BnFromNat(ExactScore1200(country)), FloatOfNat(1)),
               BnFromNat(1200 * Tolerance))

\* political_stability and social_indicators, whose weights differ, have different means
C3_Witness ==
    /\ ret.op = "calculate_threat_score"
    /\ SumPositions(Indicators(country), 1, 4) # SumPositions(Indicators(country), 13, 16)
    /\ SumPositions(Indicators(country), 17, 22) # SumPositions(Indicators(country), 5, 8)

CategoryFrom(cat) ==
    CASE cat = "political_stability"  -> 1
      [] cat = "security_environment" -> 5
      [] cat = "economic_stability"   -> 9
      [] cat = "social_indicators"    -> 13
      [] cat = "illicit_markets"      -> 17

CategoryTo(cat) == IF cat = "illicit_markets" THEN 22 ELSE CategoryFrom(cat) + 3

\* C4: calculate_category_score is the arithmetic mean of all indicators of the
\* category (4 indicators, 6 for illicit_markets), up to the rounding of one division:
\* within [1.0, 10.0] for indicators in [1,10], v when every indicator is v, and 0.0
\* when no category is given.
C4_CategoryMean ==
    ret.op = "calculate_category_score" =>
        IF ret.arg = "None"
        THEN ret.value = <<>>
        ELSE LET from == CategoryFrom(ret.arg)
                 to   == CategoryTo(ret.arg)
                 n    == to - from + 1
                 v    == Indicators(country)
             IN  /\ Within(BnMulSmall(ret.value, n),
                           BnMul(BnFromNat(SumPositions(v, from, to)), FloatOfNat(1)),
                           BnFromNat(n * Tolerance))
                 /\ InRange(country) =>
                       FLe(FloatOfNat(1), ret.value) /\ FLe(ret.value, FloatOfNat(10))
                 /\ \A x \in 0..11 :
                       (\A i \in from..to : v[i] = x) => ret.value = FloatOfNat(x)

\* the mean of six illicit_markets indicators that are not all equal
C4_Witness ==
    /\ ret.op = "calculate_category_score"
    /\ ret.arg = "illicit_markets"
    /\ \E i \in 17..22 : Indicators(country)[i] # Indicators(country)[17]
    /\ ret.value # <<>>

\* C5: the five weights of WEIGHTS sum to exactly 1.0 (100 in hundredths), and the
\* table has exactly one entry for each of the five categories; so the score of the
\* record whose category means are all 1.0 is exactly 1.0.
C5_WeightsSumToOne ==
    /\ DOMAIN WEIGHTS = Range(Categories)
    /\ Cardinality(DOMAIN WEIGHTS) = 5
    /\ \A c \in DOMAIN WEIGHTS : WEIGHTS[c][2] = 100
    /\ SumInts([c \in DOMAIN WEIGHTS |-> WEIGHTS[c][1]], DOMAIN WEIGHTS) = 100
    /\ \A mode \in SumModes :
          PySum([i \in 1..Len(Categories) |-> WeightFloat[Categories[i]]], mode)
              = FloatOfNat(1)
    /\ (ret.op = "calculate_threat_score" /\ AllIndicators(country, 1)) =>
          ret.value = FloatOfNat(1)

C5_Witness ==
    /\ ret.op = "calculate_threat_score"
    /\ AllIndicators(country, 1)
    /\ pysum = "compensated"
    /\ ret.value = FloatOfNat(1)

\* ------------------------------------------------------------------------
\* Properties of the repository model (checked under Spec)
\* ------------------------------------------------------------------------
Notes(c) == <<c.key_risk_factors, c.trend_analysis, c.recommendations>>

RowsNamed(n) == {r \in rows : r.name = n}

\* C6: after save_country(A) and then save_country(A') with the same name and other
\* indicators or notes, the store has one row of that name and load_all_countries
\* returns under it a record whose 22 indicators and 3 notes are those of A'.
C6_UpsertOverwrite ==
    (/\ last.op = "save_country"
     /\ last.prior # None
     /\ last.prior # last.country
     /\ ValidRecord(last.country)) =>
        /\ Cardinality(RowsNamed(last.name)) = 1
        /\ last.name \in DOMAIN load_all_countries(rows)
        /\ \A i \in 1..NumIndicators :
              Indicators(load_all_countries(rows)[last.name])[i]
                  = Indicators(last.country)[i]
        /\ \A k \in 1..3 :
              Notes(load_all_countries(rows)[last.name])[k] = Notes(last.country)[k]

\* a record was saved over one that differed from it in every note and in indicators
C6_Witness ==
    /\ last.op = "save_country"
    /\ last.prior # None
    /\ ValidRecord(last.country)
    /\ Indicators(last.prior) # Indicators(last.country)
    /\ \A k \in 1..3 : Notes(last.prior)[k] # Notes(last.country)[k]
    /\ Notes(load_all_countries(rows)[last.name]) = Notes(last.country)

\* C7: for every valid record r, after save_country(r) load_all_countries returns
\* under r.name a record with the name of r, each of the 22 indicators of r in the
\* field it was written from, and the 3 notes of r.
C7_RoundTrip ==
    (last.op = "save_country" /\ ValidRecord(last.country)) =>
        /\ last.country.name \in DOMAIN load_all_countries(rows)
        /\ load_all_countries(rows)[last.country.name].name = last.country.name
        /\ \A cat \in Range(Categories) :
              \A f \in Range(MetricsClass[cat]) :
                  load_all_countries(rows)[last.country.name][cat][f]
                      = last.country[cat][f]
        /\ load_all_countries(rows)[last.country.name].key_risk_factors
              = last.country.key_risk_factors
        /\ load_all_countries(rows)[last.country.name].trend_analysis
              = last.country.trend_analysis
        /\ load_all_countries(rows)[last.country.name].recommendations
              = last.country.recommendations

\* a new name was saved with non-empty notes and neighbouring indicators that differ
C7_Witness ==
    /\ last.op = "save_country"
    /\ last.prior = None
    /\ ValidRecord(last.country)
    /\ Notes(last.country) = <<"k", "t", "r">>
    /\ \A i \in 1..(NumIndicators - 1) :
          Indicators(last.country)[i] # Indicators(last.country)[i + 1]
    /\ load_all_countries(rows)[last.name] = last.country

\* C8: save_country of a record identical to the one saved just before, or to the one
\* the store already holds under its name, leaves load_all_countries as it was: the
\* same names, and the same indicators and notes under every name. (The step that
\* advances seq is save_country; it records its argument and the record held before
\* in last.)
C8_SaveIdempotent ==
    [][(/\ seq' = seq + 1
        /\ last'.op = "save_country"
        /\ \/ last'.prior = last'.country
           \/ last.op = "save_country" /\ last.country = last'.country) =>
           load_all_countries(rows') = load_all_countries(rows)]_vars

\* a record was saved over an identical one at a later time, beside another name
C8_Witness ==
    /\ last.op = "save_country"
    /\ last.prior = last.country
    /\ Cardinality(rows) = 2
    /\ \A r \in RowsNamed(last.name) : r.updated_at = MaxClock
    /\ \E r \in rows : r.updated_at < MaxClock

\* C9: delete_country of a name with no row is a call that completes and leaves the
\* store unchanged: the rows, and what load_all_countries returns, are the same.
C9_DeleteAbsent ==
    [][\A n \in Names :
          (delete_country(n) /\ n \notin DOMAIN load_all_countries(rows)) =>
              /\ rows' = rows
              /\ load_all_countries(rows') = load_all_countries(rows)]_vars

\* a name without a row was deleted from a store that holds another name
C9_Witness ==
    /\ last.op = "delete_country"
    /\ last.prior = None
    /\ rows # {}
    /\ RowsNamed(last.name) = {}

\* C10: delete_country of a stored name removes the row of that name and no other:
\* load_all_countries no longer has the name, and has every other name with the
\* record it had.
C10_DeleteRemovesExactlyOne ==
    [][\A n \in Names :
          (delete_country(n) /\ n \in DOMAIN load_all_countries(rows)) =>
              /\ n \notin DOMAIN load_all_countries(rows')
              /\ DOMAIN load_all_countries(rows')
                    = (DOMAIN load_all_countries(rows)) \ {n}
              /\ \A m \in (DOMAIN load_all_countries(rows)) \ {n} :
                    load_all_countries(rows')[m] = load_all_countries(rows)[m]
              /\ rows \ rows' = {r \in rows : r.name = n}
              /\ rows' \subseteq rows]_vars

\* a stored name was deleted and the other stored name is still there
C10_Witness ==
    /\ last.op = "delete_country"
    /\ last.prior # None
    /\ RowsNamed(last.name) = {}
    /\ rows # {}

\* C11: after any sequence of save_country, delete_country and init_database calls
\* the store holds at most one row per name, and the keys of load_all_countries are
\* the names whose most recent save_country or delete_country call was a save.
C11_OneRowPerName ==
    /\ \A n \in Names : Cardinality(RowsNamed(n)) <= 1
    /\ \A r \in rows : r.name \in Names
    /\ DOMAIN load_all_countries(rows) = saved

\* after three saves one row is left, of the second save, and the last call deleted
\* a stored name
C11_Witness ==
    /\ seq = MaxRowId
    /\ Cardinality(saved) = 1
    /\ Cardinality(rows) = 1
    /\ last.op = "delete_country"
    /\ last.prior # None
    /\ \A r \in rows : r.id > 1 /\ r.id < MaxRowId

\* C12: init_database on a store that already has the table and rows is a call that
\* completes and leaves every row as it was: load_all_countries returns the same
\* mapping before and after.
C12_InitRepeatSafe ==
    [][(init_database /\ "countries" \in tables) =>
           /\ tables' = tables
           /\ rows' = rows
           /\ load_all_countries(rows') = load_all_countries(rows)]_vars

\* init_database was called on a store that holds both names
C12_Witness ==
    /\ last.op = "init_database"
    /\ "countries" \in tables
    /\ DOMAIN load_all_countries(rows) = Names

\* C13: a record with an indicator outside [1,10] is rejected when it is constructed,
\* before any persistence call: save_country is never called with one, and every row
\* it stores has all 22 indicators in [1,10].
C13_StoredIndicatorsInRange ==
    /\ last.op = "save_country" =>
          \A i \in 1..NumIndicators :
              Indicators(last.country)[i] \in MinIndicator..MaxIndicator
    /\ \A r \in rows :
          \A k \in 2..(NumIndicators + 1) :
              r[InsertColumns[k]] \in MinIndicator..MaxIndicator

\* C15: created_at is assigned when a name is first inserted and a later save_country
\* of the same name does not change it, updated_at is refreshed by every
\* save_country, and so created_at <= updated_at in every stored row; stated for the
\* saves of valid records. (The step that advances seq is save_country, of the name
\* in last.)
C15_CreatedAtKept ==
    [][(seq' = seq + 1 /\ last'.op = "save_country" /\ ValidRecord(last'.country)) =>
           /\ \A old \in RowsNamed(last'.name) :
                 \A new \in {r \in rows' : r.name = last'.name} :
                     new.created_at = old.created_at
           /\ \A new \in {r \in rows' : r.name = last'.name} : new.updated_at = clock
           /\ \A r \in rows' : r.created_at <= r.updated_at]_vars

\* the record with the indicators of c under another name and with other notes
Renamed(c) == CountryOf("B", Indicators(c), <<"k", "t", "r">>)

\* C16: a call of calculate_category_score, calculate_threat_score,
\* get_threat_level, get_threat_description or get_threat_color leaves every field
\* of the record and the whole store unchanged, and the score and level it returns
\* are those of any record with the same indicators, whatever its name and notes.
\* (Checked under SpecScore.)
C16_ScoringPure ==
    [][(ret' # ret) =>
           /\ country' = country
           /\ <<tables', rows', seq'>> = <<tables, rows, seq>>
           /\ countries' = countries
           /\ ret'.op = "calculate_threat_score" =>
                 ret'.value = calculate_threat_score(Renamed(country), pysum)
           /\ ret'.op = "get_threat_level" =>
                 ret'.value = get_threat_level(Renamed(country), pysum)]_vars

\* a score was returned for a record whose categories differ
C16_Witness ==
    /\ ret.op = "calculate_threat_score"
    /\ country \in ScoreInputs
    /\ country.name # Renamed(country).name
    /\ \E i \in 1..NumIndicators : Indicators(country)[i] # Indicators(country)[1]
    /\ ret.value = calculate_threat_score(Renamed(country), pysum)

NoteColumns == <<"key_risk_factors", "trend_analysis", "recommendations">>

\* C19: each of the three notes reloads as a string: a note that is the empty string
\* or NULL in the row is returned by load_all_countries as the empty string, never
\* as a null value, and any other note as it is stored. (Checked under Spec.)
C19_NotesNeverNull ==
    \A r \in rows :
        \A k \in 1..Len(NoteColumns) :
            /\ load_all_countries(rows)[r.name][NoteColumns[k]] # NULL
            /\ r[NoteColumns[k]] \in {NULL, ""} =>
                  load_all_countries(rows)[r.name][NoteColumns[k]] = ""
            /\ r[NoteColumns[k]] \notin {NULL, ""} =>
                  load_all_countries(rows)[r.name][NoteColumns[k]] = r[NoteColumns[k]]

\* a stored row has a NULL note beside a note with text, and another row an empty one
C19_Witness ==
    /\ \E r \in rows :
          /\ r.key_risk_factors = NULL
          /\ r.trend_analysis = "t"
          /\ load_all_countries(rows)[r.name].key_risk_factors = ""
          /\ load_all_countries(rows)[r.name].trend_analysis = "t"
    /\ \E r \in rows :
          r.recommendations = "" /\ load_all_countries(rows)[r.name].recommendations = ""

\* C20: UNDEFINED is only an out-of-range fallback: for every record whose 22
\* indicators are all in [1,10] get_threat_level returns one of LOW, MODERATE,
\* ELEVATED, HIGH, EXTREME, and it returns UNDEFINED only when the weighted score is
\* below 1.0 or above 10.0. (Checked under SpecScore.)
C20_UndefinedOnlyOutOfRange ==
    ret.op = "get_threat_level" =>
        /\ InRange(country) =>
              ret.value \in {"LOW", "MODERATE", "ELEVATED", "HIGH", "EXTREME"}
        /\ ret.value = "UNDEFINED" =>
              \/ ~FLe(FloatOfNat(1), calculate_threat_score(country, pysum))
              \/ ~FLe(calculate_threat_score(country, pysum), FloatOfNat(10))

\* ------------------------------------------------------------------------
\* Properties of save_country statement by statement (checked under SpecTxn)
\* ------------------------------------------------------------------------
\* C17: save_country is all-or-nothing. Its write is not in the store before commit;
\* when the write fails or the call is interrupted before commit, the caller gets
\* the exception and the store is as it was (the row of the name has its prior
\* content or is still absent); and load_all_countries never returns a record that
\* is not, whole, one of the records saved.
C17_SaveAllOrNothing ==
    [][/\ \A p \in Procs :
            /\ (conn[p].pc = "connected" /\ conn'[p].pc = "executed") =>
                  load_all_countries(rows') = load_all_countries(rows)
            /\ (conn[p].pc \in {"connected", "executed"}
                /\ conn'[p].pc \notin {"connected", "executed", "returned"}) =>
                  /\ conn'[p].pc \in {"raised", "interrupted"}
                  /\ rows' = rows
                  /\ load_all_countries(rows') = load_all_countries(rows)
       /\ \A n \in DOMAIN load_all_countries(rows') :
              load_all_countries(rows')[n] \in TxnInputs]_vars

\* a call was interrupted after its INSERT, and the store has the other record of
\* that name, not the one the call had written
C17_Witness ==
    \E p \in Procs :
        /\ conn[p].pc = "interrupted"
        /\ conn[p].txn.after # rows
        /\ conn[p].arg.name \in DOMAIN load_all_countries(rows)
        /\ load_all_countries(rows)[conn[p].arg.name] # conn[p].arg

\* C18: when two callers run save_country at the same time for one name with
\* different records, the store serializes them: afterwards there is one row of the
\* name, and its 22 indicators and 3 notes are those of one of the two records.
C18_ConcurrentSavesSerialized ==
    /\ \A r \in rows : Cardinality(RowsNamed(r.name)) = 1
    /\ \A p \in Procs : \A q \in Procs \ {p} :
          (/\ conn[p].pc = "returned"
           /\ conn[q].pc \in {"returned", "raised", "interrupted"}
           /\ conn[p].overlap /\ conn[q].overlap
           /\ conn[p].arg.name = conn[q].arg.name) =>
              /\ Cardinality(RowsNamed(conn[p].arg.name)) = 1
              /\ \E c \in {conn[p].arg, conn[q].arg} :
                    /\ Indicators(load_all_countries(rows)[c.name]) = Indicators(c)
                    /\ Notes(load_all_countries(rows)[c.name]) = Notes(c)

\* two overlapping calls for one name with different records have both returned
C18_Witness ==
    /\ conn[1].pc = "returned" /\ conn[2].pc = "returned"
    /\ conn[1].overlap /\ conn[2].overlap
    /\ conn[1].arg.name = conn[2].arg.name
    /\ conn[1].arg # conn[2].arg
    /\ Cardinality(RowsNamed(conn[1].arg.name)) = 1

\* ------------------------------------------------------------------------
\* Properties of the form (checked under SpecApp)
\* ------------------------------------------------------------------------
AllowedChar(ch) == IsAlnumChar(ch) \/ ch = " " \/ ch = "-"

\* the trimmed name is empty or has a character that is not allowed
BadName(name) == name = <<>> \/ \E i \in 1..Len(name) : ~AllowedChar(name[i])

RejectMessages ==
    {"Please enter a country name", "Country name contains invalid characters"}

\* C14: add_country rejects the trimmed name exactly when it is empty or contains a
\* character other than alphanumerics, spaces and hyphens; every other name is
\* accepted, and a rejected name causes no write to the in-memory mapping or the
\* store.
C14_NameValidation ==
    [][add_country =>
           /\ BadName(Strip(form.name)) <=> ret'.value \in RejectMessages
           /\ ret'.value \in RejectMessages => countries' = countries /\ rows' = rows
           /\ ~BadName(Strip(form.name)) => Strip(form.name) \in DOMAIN countries']_vars
\* ------------------------------------------------------------------------
\* Properties of the window (checked under SpecGui)
\* ------------------------------------------------------------------------
\* C21: the mapping self.countries is never changed apart from a successful
\* storage call: after any sequence of program starts, add_country and
\* delete_country steps, storage failures included, self.countries holds the
\* names and records that load_all_countries returns from the store.
C21_MappingMatchesStore == countries = load_all_countries(rows)

\* C22: the text the Combobox shows is empty or a key of self.countries, and
\* neither delete_country nor export_selected_to_pdf has ended in the KeyError
\* of looking up a name the mapping does not hold.
C22_SelectionValid ==
    /\ country_dropdown.text = <<>> \/ country_dropdown.text \in DOMAIN countries
    /\ ret.op \in {"delete_country", "export_selected_to_pdf"}
           => ret.value # "KeyError"

\* C23: when the Listbox shows the saved countries, the name that
\* load_country_from_listbox splits off the entry it was given is the name
\* the entry was built from (the name at the same position of the sorted
\* names), and the country of that name is put into the form.
C23_ListboxRoundTrip ==
    (ret.op = "load_country_from_listbox" /\ country_dropdown.values # <<>>)
        => /\ ret.value = country_dropdown.values[ret.arg]
           /\ ret.loaded

====
